---- MODULE Spec2Model ----
(***************************************************************************)
(* Model of langgraph/module-7-stress-testing/studio/agent.py: a graph     *)
(* prepare_tasks -> (spawn_router: N x Send) -> increment -> collector ->  *)
(* result -> END over CounterState, run by graph.invoke({}) as the script's*)
(* main block does.                                                        *)
(*                                                                         *)
(* The graph is executed in supersteps: the tasks of one superstep run     *)
(* concurrently on a worker pool, each task buffers the writes of its node *)
(* (and of the edges leaving it), and when every task of the superstep has *)
(* finished the buffered writes are applied to the state channels, the     *)
(* counter through its operator.add reducer, and the next superstep's      *)
(* tasks are derived from the Send directives and the triggered edges.     *)
(*                                                                         *)
(* The number prepare_tasks returns and the number result_node expects are *)
(* both 10000 in the source.  The expected number is scaled to Expected,   *)
(* and the number prepare_tasks returns ranges over FanOutCounts, so that  *)
(* the runs with fewer, as many, and more units than expected, with no     *)
(* unit and with a negative count are all explored.                        *)
(***************************************************************************)
EXTENDS Integers, Sequences, FiniteSets, TLC

\* ---- bounds ----
MaxFanOut == 4
MaxWorkers == 3
MaxRuns == 2

\* the number result_node compares the counter with (10000 in the source)
Expected == 3

\* the values prepare_tasks may hand to the router
FanOutCounts == {0 - 1} \cup (0 .. MaxFanOut)

VARIABLES
    pc,              \* position of the main block
    fanOut,          \* the number prepare_tasks returns in this process
    workers,         \* size of the pool the tasks of a superstep run on
    run,             \* number of the current graph.invoke call
    counter,         \* CounterState.counter (channel with reducer operator.add)
    tasks_to_spawn,  \* CounterState.tasks_to_spawn (meaningful when available)
    message,         \* CounterState.message
    available,       \* the state keys that hold a value
    TASKS,           \* the Send directives consumed by the current superstep
    tasks,           \* the tasks of the current superstep
    writes,          \* the buffered writes of each task
    unit_runs,       \* executions of increment_node per Send directive
    node_runs,       \* executions of each node in this run
    log,             \* the lines printed in this run
    error,           \* the exception that escaped to the caller, if any
    outcomes         \* final states of the finished runs

vars == <<pc, fanOut, workers, run, counter, tasks_to_spawn, message,
          available, TASKS, tasks, writes, unit_runs, node_runs, log,
          error, outcomes>>

Nodes == {"prepare_tasks", "increment", "collector", "result"}

Max(a, b) == IF a >= b THEN a ELSE b

\* ---- values ----
Unset == [kind |-> "unset"]

Success(got) == [kind |-> "Success", got |-> got]

Failure(expected, got) == [kind |-> "Failure", expected |-> expected, got |-> got]

Write(chan, val) == [chan |-> chan, val |-> val]

Send(node) == [node |-> node, arg |-> "empty"]

Task(node) == [node |-> node, status |-> "pending"]

\* ---- the nodes: what each returns ----
prepare_tasks(n) == <<Write("tasks_to_spawn", n)>>

\* a unit whose contribution is lost when it overlaps with another unit
increment_node_racy ==
    <<Write("counter",
            IF Cardinality({i \in 1 .. Len(tasks) : tasks[i].status = "running"}) > 1
            THEN 0 ELSE 1)>>

\* a unit whose contribution is taken from the shared state
increment_node_scaled == <<Write("counter", tasks_to_spawn)>>

increment_node == <<Write("counter", 1)>>

\* a collector that clears the number of tasks
collector_node_reset == <<Write("tasks_to_spawn", 0)>>

collector_node == <<>>

\* a comparison that accepts any counter of at least the expected number
result_msg_atleast(got) ==
    IF got >= Expected THEN Success(got) ELSE Failure(Expected, got)

result_msg(got) ==
    IF got = Expected THEN Success(got) ELSE Failure(Expected, got)

result_node(got) == <<Write("message", result_msg(got))>>

\* a router that emits one directive too many
spawn_router_extra(n) ==
    [i \in 1 .. Max(n, 0) + 1 |-> Write("TASKS", Send("increment"))]

\* [Send("increment", {}) for _ in range(n)]: range of a negative n is empty
spawn_router(n) == [i \in 1 .. Max(n, 0) |-> Write("TASKS", Send("increment"))]

\* a graph without the edge from increment to collector
EdgeWrites_nocollect(node) ==
    CASE node = "collector" -> <<Write("branch:to:result", 0)>>
      [] OTHER -> <<>>

\* the writes of the fixed edges leaving a node
EdgeWrites(node) ==
    CASE node = "increment" -> <<Write("branch:to:collector", 0)>>
      [] node = "collector" -> <<Write("branch:to:result", 0)>>
      [] OTHER -> <<>>

\* a counter channel without reducer: the last write wins
add_overwrite(a, b) == b

\* ---- the reducer of the counter channel ----
add(a, b) == a + b

\* ---- applying the writes of a superstep ----
RECURSIVE Flatten(_)
Flatten(ws) == IF ws = <<>> THEN <<>> ELSE Head(ws) \o Flatten(Tail(ws))

OnChan(ws, chan) == SelectSeq(ws, LAMBDA w : w.chan = chan)

RECURSIVE Reduce(_, _)
Reduce(value, ws) ==
    IF ws = <<>> THEN value ELSE Reduce(add(value, Head(ws).val), Tail(ws))

LastValue(old, ws) == IF ws = <<>> THEN old ELSE ws[Len(ws)].val

Written(ws) == {ws[i].chan : i \in 1 .. Len(ws)}

\* the tasks of the next superstep: one per Send, then one per triggered node
NextTasks(ws) ==
    LET sends == OnChan(ws, "TASKS")
    IN  [i \in 1 .. Len(sends) |-> Task(sends[i].val.node)]
        \o (IF "branch:to:collector" \in Written(ws) THEN <<Task("collector")>> ELSE <<>>)
        \o (IF "branch:to:result" \in Written(ws) THEN <<Task("result")>> ELSE <<>>)

\* a superstep that ends with the first finished task
TickDone_first == \E i \in 1 .. Len(tasks) : tasks[i].status = "done"

\* the superstep is over when every task of it has finished
TickDone == \A i \in 1 .. Len(tasks) : tasks[i].status = "done"

Running == {i \in 1 .. Len(tasks) : tasks[i].status = "running"}

FinalState == [counter |-> counter, message |-> message, keys |-> available]

\* ---- initial state: graph.invoke({}) has scheduled prepare_tasks ----
Init ==
    /\ pc = "invoke"
    /\ fanOut \in FanOutCounts
    /\ workers \in 1 .. MaxWorkers
    /\ run = 1
    /\ counter = 0
    /\ tasks_to_spawn = 0
    /\ message = Unset
    /\ available = {"counter"}
    /\ TASKS = <<>>
    /\ tasks = <<Task("prepare_tasks")>>
    /\ writes = <<(<<>>)>>
    /\ unit_runs = <<>>
    /\ node_runs = [n \in Nodes |-> 0]
    /\ log = <<>>
    /\ error = "none"
    /\ outcomes = <<>>

\* ---- actions ----
\* one thread per task: a pending task starts whatever the pool size
StartTask_unbounded(i) ==
    /\ pc = "invoke"
    /\ i \in 1 .. Len(tasks)
    /\ tasks[i].status = "pending"
    /\ tasks' = [tasks EXCEPT ![i].status = "running"]
    /\ UNCHANGED <<pc, fanOut, workers, run, counter, tasks_to_spawn, message,
                   available, TASKS, writes, unit_runs, node_runs, log,
                   error, outcomes>>

\* a pending task is picked up by a free worker
StartTask(i) ==
    /\ pc = "invoke"
    /\ i \in 1 .. Len(tasks)
    /\ tasks[i].status = "pending"
    /\ Cardinality(Running) < workers
    /\ tasks' = [tasks EXCEPT ![i].status = "running"]
    /\ UNCHANGED <<pc, fanOut, workers, run, counter, tasks_to_spawn, message,
                   available, TASKS, writes, unit_runs, node_runs, log,
                   error, outcomes>>

\* the body of prepare_tasks; its task goes on with the conditional edge
PrepareTasks(i) ==
    /\ pc = "invoke"
    /\ i \in 1 .. Len(tasks)
    /\ tasks[i] = [node |-> "prepare_tasks", status |-> "running"]
    /\ tasks' = [tasks EXCEPT ![i].status = "routing"]
    /\ writes' = [writes EXCEPT ![i] = prepare_tasks(fanOut)]
    /\ log' = Append(log, "Node: prepare_tasks")
    /\ node_runs' = [node_runs EXCEPT !["prepare_tasks"] = @ + 1]
    /\ UNCHANGED <<pc, fanOut, workers, run, counter, tasks_to_spawn, message,
                   available, TASKS, unit_runs, error, outcomes>>

\* the conditional edge of prepare_tasks: the router reads the state as
\* updated by the writes of its own task
SpawnRouter(i) ==
    /\ pc = "invoke"
    /\ i \in 1 .. Len(tasks)
    /\ tasks[i] = [node |-> "prepare_tasks", status |-> "routing"]
    /\ LET n == LastValue(tasks_to_spawn, OnChan(writes[i], "tasks_to_spawn"))
       IN  writes' = [writes EXCEPT ![i] = @ \o spawn_router(n)]
    /\ tasks' = [tasks EXCEPT ![i].status = "done"]
    /\ log' = Append(log, "Routing... Spawning tasks.")
    /\ UNCHANGED <<pc, fanOut, workers, run, counter, tasks_to_spawn, message,
                   available, TASKS, unit_runs, node_runs, error, outcomes>>

\* a unit that adds to the counter itself instead of returning its contribution
IncrementNode_inplace(i) ==
    /\ pc = "invoke"
    /\ i \in 1 .. Len(tasks)
    /\ tasks[i] = [node |-> "increment", status |-> "running"]
    /\ tasks' = [tasks EXCEPT ![i].status = "done"]
    /\ counter' = counter + 1
    /\ writes' = [writes EXCEPT ![i] = EdgeWrites("increment")]
    /\ unit_runs' = [unit_runs EXCEPT ![i] = @ + 1]
    /\ node_runs' = [node_runs EXCEPT !["increment"] = @ + 1]
    /\ UNCHANGED <<pc, fanOut, workers, run, tasks_to_spawn, message,
                   available, TASKS, log, error, outcomes>>

\* one unit: increment_node returns its contribution
IncrementNode(i) ==
    /\ pc = "invoke"
    /\ i \in 1 .. Len(tasks)
    /\ tasks[i] = [node |-> "increment", status |-> "running"]
    /\ tasks' = [tasks EXCEPT ![i].status = "done"]
    /\ writes' = [writes EXCEPT ![i] = increment_node \o EdgeWrites("increment")]
    /\ unit_runs' = [unit_runs EXCEPT ![i] = @ + 1]
    /\ node_runs' = [node_runs EXCEPT !["increment"] = @ + 1]
    /\ UNCHANGED <<pc, fanOut, workers, run, counter, tasks_to_spawn, message,
                   available, TASKS, log, error, outcomes>>

CollectorNode(i) ==
    /\ pc = "invoke"
    /\ i \in 1 .. Len(tasks)
    /\ tasks[i] = [node |-> "collector", status |-> "running"]
    /\ tasks' = [tasks EXCEPT ![i].status = "done"]
    /\ writes' = [writes EXCEPT ![i] = collector_node \o EdgeWrites("collector")]
    /\ log' = Append(log, "Node: collector (all increments complete)")
    /\ node_runs' = [node_runs EXCEPT !["collector"] = @ + 1]
    /\ UNCHANGED <<pc, fanOut, workers, run, counter, tasks_to_spawn, message,
                   available, TASKS, unit_runs, error, outcomes>>

\* state.get("counter", 0) is the counter channel: it always holds a value
ResultNode(i) ==
    /\ pc = "invoke"
    /\ i \in 1 .. Len(tasks)
    /\ tasks[i] = [node |-> "result", status |-> "running"]
    /\ tasks' = [tasks EXCEPT ![i].status = "done"]
    /\ writes' = [writes EXCEPT ![i] = result_node(counter) \o EdgeWrites("result")]
    /\ log' = Append(log, "Node: result")
    /\ node_runs' = [node_runs EXCEPT !["result"] = @ + 1]
    /\ UNCHANGED <<pc, fanOut, workers, run, counter, tasks_to_spawn, message,
                   available, TASKS, unit_runs, error, outcomes>>

\* end of a superstep: apply the buffered writes, derive the next tasks;
\* with no next task graph.invoke returns the state
AfterTick ==
    /\ pc = "invoke"
    /\ TickDone
    /\ LET ws == Flatten(writes)
           nt == NextTasks(ws)
           sends == OnChan(ws, "TASKS")
       IN  /\ counter' = Reduce(counter, OnChan(ws, "counter"))
           /\ tasks_to_spawn' = LastValue(tasks_to_spawn, OnChan(ws, "tasks_to_spawn"))
           /\ message' = LastValue(message, OnChan(ws, "message"))
           /\ available' = available \cup
                  (Written(ws) \cap {"counter", "tasks_to_spawn", "message"})
           /\ TASKS' = [i \in 1 .. Len(sends) |-> sends[i].val]
           /\ tasks' = nt
           /\ writes' = [i \in 1 .. Len(nt) |-> <<>>]
           /\ unit_runs' = IF sends # <<>> THEN [i \in 1 .. Len(sends) |-> 0]
                           ELSE unit_runs
           /\ pc' = IF nt = <<>> THEN "returned" ELSE "invoke"
    /\ UNCHANGED <<fanOut, workers, run, node_runs, log, error, outcomes>>

\* the main block after graph.invoke: final_state["message"] raises KeyError
\* when the state holds no message
MainPrint ==
    /\ pc = "returned"
    /\ IF "message" \in available
       THEN pc' = "done" /\ error' = error
       ELSE pc' = "crashed" /\ error' = "KeyError"
    /\ outcomes' = Append(outcomes, [state |-> FinalState, workers |-> workers])
    /\ UNCHANGED <<fanOut, workers, run, counter, tasks_to_spawn, message,
                   available, TASKS, tasks, writes, unit_runs, node_runs, log>>

\* the script is run again: a fresh graph.invoke({}), on a pool of any size
Rerun ==
    /\ pc \in {"done", "crashed"}
    /\ run < MaxRuns
    /\ run' = run + 1
    /\ workers' \in 1 .. MaxWorkers
    /\ pc' = "invoke"
    /\ counter' = 0
    /\ tasks_to_spawn' = 0
    /\ message' = Unset
    /\ available' = {"counter"}
    /\ TASKS' = <<>>
    /\ tasks' = <<Task("prepare_tasks")>>
    /\ writes' = <<(<<>>)>>
    /\ unit_runs' = <<>>
    /\ node_runs' = [n \in Nodes |-> 0]
    /\ log' = <<>>
    /\ error' = "none"
    /\ UNCHANGED <<fanOut, outcomes>>

Step ==
    \/ \E i \in 1 .. MaxFanOut + 1 : StartTask(i)
    \/ \E i \in 1 .. MaxFanOut + 1 : PrepareTasks(i)
    \/ \E i \in 1 .. MaxFanOut + 1 : SpawnRouter(i)
    \/ \E i \in 1 .. MaxFanOut + 1 : IncrementNode(i)
    \/ \E i \in 1 .. MaxFanOut + 1 : CollectorNode(i)
    \/ \E i \in 1 .. MaxFanOut + 1 : ResultNode(i)
    \/ AfterTick
    \/ MainPrint

Next == Step \/ Rerun

Spec == Init /\ [][Next]_vars

\* the scheduler runs every enabled step of a started run
FairSpec == Spec /\ WF_vars(Step)

\* ---- helpers of the properties ----
Returned == pc \in {"returned", "done", "crashed"}

Terminal == pc \in {"done", "crashed"}

\* the barrier has released: a task of collector or result exists or has run
Released ==
    \/ \E i \in 1 .. Len(tasks) : tasks[i].node \in {"collector", "result"}
    \/ node_runs["collector"] > 0
    \/ node_runs["result"] > 0

RECURSIVE SumSeq(_)
SumSeq(q) == IF q = <<>> THEN 0 ELSE Head(q) + SumSeq(Tail(q))

\* the message writes buffered by the tasks of the current superstep
MessageWrites == OnChan(Flatten(writes), "message")

PhaseLog ==
    << "Node: prepare_tasks",
       "Routing... Spawning tasks.",
       "Node: collector (all increments complete)",
       "Node: result" >>

IsPrefix(p, q) == Len(p) <= Len(q) /\ \A i \in 1 .. Len(p) : p[i] = q[i]

\* C1: for every fan-out count N >= 0 and every interleaving of the units,
\* the counter result_node reads, and the counter of the returned state, is
\* 0 plus the sum of the N contributions of 1, that is N.
C1_CounterIsFanOut ==
    fanOut >= 0 =>
        /\ \A k \in 1 .. Len(MessageWrites) : MessageWrites[k].val.got = fanOut
        /\ message # Unset => message.got = fanOut
        /\ Returned => counter = fanOut /\ counter = 0 + SumSeq(unit_runs)

C1_Witness ==
    /\ pc = "done"
    /\ fanOut >= 2
    /\ workers >= 2
    /\ message.got = fanOut
    /\ counter = fanOut

\* C2: collector and result are scheduled only when every spawned unit has
\* completed: no state has a collector or result task, or an execution of
\* either, while a unit is pending or running.
C2_BarrierSafety ==
    Released =>
        /\ "tasks_to_spawn" \in available
        /\ Len(unit_runs) = Max(tasks_to_spawn, 0)
        /\ \A u \in 1 .. Len(unit_runs) : unit_runs[u] >= 1
        /\ \A i \in 1 .. Len(tasks) : tasks[i].node # "increment"

C2_Witness ==
    /\ \E i \in 1 .. Len(tasks) :
           tasks[i] = [node |-> "collector", status |-> "running"]
    /\ Len(unit_runs) >= 2
    /\ workers >= 2

\* C3: the final message is the success message, carrying the final counter,
\* exactly when the final counter equals the expected number; a run of
\* exactly the expected number of units ends with that success message.
C3_VerifyStep ==
    Terminal =>
        /\ (message.kind = "Success") <=> (counter = Expected)
        /\ message.kind = "Success" => message = Success(counter)
        /\ fanOut = Expected => counter = Expected /\ message = Success(Expected)

C3_Witness ==
    /\ pc = "done"
    /\ fanOut = Expected
    /\ message = Success(Expected)

C7_Deterministic ==
    \A a, b \in 1 .. Len(outcomes) : outcomes[a].state = outcomes[b].state

C7_Witness ==
    /\ Len(outcomes) >= 2
    /\ outcomes[1].workers # outcomes[2].workers
    /\ outcomes[1].state.counter >= 2

\* C8: no state of a run in progress is a deadlock, and with a fan-out count
\* of at least 1 every fairly scheduled run reaches done with the message
\* of result_node.
C8_Terminates ==
    /\ [](~Terminal => ENABLED Step)
    /\ (fanOut >= 1) ~> (pc = "done" /\ message # Unset /\ node_runs["result"] = 1)

C8_Witness ==
    /\ pc = "invoke"
    /\ Len(tasks) >= 2
    /\ \A i \in 1 .. Len(tasks) : tasks[i] = [node |-> "increment", status |-> "done"]

\* C9: the router emits exactly tasks_to_spawn Send directives to increment,
\* and when the barrier has released each of them has been executed exactly
\* once.
C9_ScatterExactly ==
    fanOut >= 0 =>
        /\ \A i \in 1 .. Len(tasks) :
               tasks[i] = [node |-> "prepare_tasks", status |-> "done"] =>
                   LET sends == OnChan(writes[i], "TASKS")
                   IN  /\ Len(sends) = fanOut
                       /\ \A k \in 1 .. Len(sends) : sends[k].val.node = "increment"
        /\ \A u \in 1 .. Len(unit_runs) : unit_runs[u] <= 1
        /\ (Released \/ Returned) =>
               /\ Len(unit_runs) = tasks_to_spawn
               /\ \A u \in 1 .. Len(unit_runs) : unit_runs[u] = 1
               /\ node_runs["increment"] = tasks_to_spawn

C9_Witness ==
    /\ \E i \in 1 .. Len(tasks) : tasks[i].node = "collector"
    /\ tasks_to_spawn >= 2
    /\ Len(unit_runs) = tasks_to_spawn
    /\ \A u \in 1 .. Len(unit_runs) : unit_runs[u] = 1

StateWrites(ws) ==
    SelectSeq(ws, LAMBDA w : w.chan \in {"counter", "tasks_to_spawn", "message"})

\* C11: the counter is never written by a unit: it stays 0 as long as the
\* units of the run exist, and it changes only at the end of a superstep,
\* when no task is running and all have finished, by the sequential fold of
\* the returned contributions.
C11_NoConcurrentMutation ==
    /\ [](\A i \in 1 .. Len(tasks) : tasks[i].node = "increment" => counter = 0)
    /\ [][(counter' # counter /\ run' = run) =>
              /\ TickDone
              /\ Running = {}
              /\ counter' = counter + Len(OnChan(Flatten(writes), "counter"))]_vars

C11_Witness ==
    /\ \E i \in 1 .. Len(tasks) : tasks[i] = Task("collector")
    /\ counter >= 2
    /\ workers >= 2
    /\ node_runs["increment"] = counter

C13_UnitPure ==
    [][\A i \in 1 .. Len(tasks) :
          (/\ tasks[i] = [node |-> "increment", status |-> "running"]
           /\ Len(tasks') = Len(tasks)
           /\ tasks'[i].status = "done") =>
              /\ StateWrites(writes'[i]) = <<Write("counter", 1)>>
              /\ OnChan(writes'[i], "TASKS") = <<>>
              /\ \A j \in 1 .. Len(tasks) :
                     j # i => tasks'[j] = tasks[j] /\ writes'[j] = writes[j]
              /\ UNCHANGED <<pc, counter, tasks_to_spawn, message, available,
                             TASKS, log, error>>]_vars

C13_Witness ==
    \E i, j \in 1 .. Len(tasks) :
        /\ tasks[i] = [node |-> "increment", status |-> "done"]
        /\ StateWrites(writes[i]) = <<Write("counter", 1)>>
        /\ tasks[j] = [node |-> "increment", status |-> "running"]
        /\ tasks_to_spawn >= 2

\* C14: once prepare_tasks has set tasks_to_spawn no later step changes it
\* or buffers a write to it, and every comparison of the run uses the same
\* expected number.
C14_ConfigImmutable ==
    /\ [](\A i \in 1 .. Len(tasks) :
              tasks[i].node # "prepare_tasks" =>
                  OnChan(writes[i], "tasks_to_spawn") = <<>>)
    /\ [][("tasks_to_spawn" \in available /\ run' = run) =>
              /\ tasks_to_spawn' = tasks_to_spawn
              /\ "tasks_to_spawn" \in available']_vars
    /\ [](\A k \in 1 .. Len(MessageWrites) :
              MessageWrites[k].val.kind = "Failure" =>
                  MessageWrites[k].val.expected = Expected)
    /\ [](message.kind = "Failure" => message.expected = Expected)

C14_Witness ==
    /\ pc = "done"
    /\ "tasks_to_spawn" \in available
    /\ tasks_to_spawn = fanOut
    /\ node_runs["collector"] = 1
    /\ message.kind = "Failure"
    /\ message.expected = Expected

====
